---- MODULE Spec2Model ----
(***************************************************************************)
(* Model of the sleep-shiyi Koishi plugin (src/src/index.ts): the five     *)
(* middlewares registered by registerFeatures, the two tables they use     *)
(* (user, sleep_record) and the helper functions isInSpan and              *)
(* calcSleepDuration.                                                      *)
(*                                                                         *)
(* Time is the number of milliseconds since local midnight of day 0, as    *)
(* Date.getTime() gives it (shifted to local time).  A message text is a   *)
(* sequence of characters; an ASCII character is itself, a CJK character   *)
(* is written as its pinyin syllable ("wan" "an" is the goodnight          *)
(* keyword), so that String.includes / startsWith / trim are computed on   *)
(* the characters.                                                         *)
(***************************************************************************)
EXTENDS Integers, Sequences, FiniteSets, TLC

\* ------------------------------------------------------------------ bounds
\* At most this many rows in sleep_record.
MaxRecords == 3
\* The same under SpecConc.
MaxConcRecords == 2
\* Number of middleware invocations that may be in flight at once (SpecConc).
MaxHandlers == 2
\* The longest a suspended invocation waits for one database call, in milliseconds.
MaxAwaitMs == 60000
\* Number of calendar days the hourly clock of SpecDay runs through.
MaxDays == 2

\* --------------------------------------------------------------- constants
MsPerMinute == 60000
MsPerHour == 60 * MsPerMinute
MsPerDay == 24 * 60 * 60 * 1000

\* wakeTime of an unfinished record: the empty string ''.
EmptyStr == -1
\* duration of an unfinished record, lastSleepId of a user without one: null.
Null == -2
\* users[uid] when the user table has no row with that id.
NoRow == [absent |-> TRUE]

\* The user ids that sessions carry; 0 is a session getSafeUserId cannot identify.
\* An id stands for its rank among the ids: the model keeps their order only.
Uids == {1, 2}
\* The ids taken from a Discord author id (getSafeUserId, step 4): a 64-bit
\* snowflake, at least 2^32 - 1 and so not an array index when it is the key of
\* an object.  Both users write from Discord.
SnowflakeUids == {1, 2}

\* Instant of hour h, minute m, second s on day d.
At(d, h, m, s) == d * MsPerDay + h * MsPerHour + m * MsPerMinute + s * 1000

\* The instants at which messages arrive.
Instants == { At(0, 23, 0, 0), At(0, 23, 30, 0), At(1, 0, 30, 10), At(1, 7, 0, 0),
              At(1, 7, 0, 40), At(1, 23, 30, 0), At(2, 7, 0, 20) }
FirstInstant == At(0, 23, 0, 0)

\* Date.getHours()
GetHours(t) == (t % MsPerDay) \div MsPerHour
\* dayjs(t).format('YYYY-MM-DD'): the calendar day, ordered as the strings are.
FormatDate(t) == t \div MsPerDay
\* dayjs(t).format('HH:mm')
FormatHHmm(t) == <<GetHours(t), (t % MsPerHour) \div MsPerMinute>>

\* Config: the defaults, and one with windows that overlap at hours 0..3, the
\* smallest threshold and the smallest defaultTop.
\* The defaults with a morning window that starts at midnight.
DefaultConfig_EarlyMorning == [morningStart |-> 0, morningEnd |-> 12, eveningStart |-> 21,
                               eveningEnd |-> 3, manyEveningThreshold |-> 3, defaultTop |-> 10]
DefaultConfig == [morningStart |-> 6, morningEnd |-> 12, eveningStart |-> 21,
                  eveningEnd |-> 3, manyEveningThreshold |-> 3, defaultTop |-> 10]
OverlapConfig == [morningStart |-> 0, morningEnd |-> 12, eveningStart |-> 21,
                  eveningEnd |-> 3, manyEveningThreshold |-> 2, defaultTop |-> 1]
Configs == {DefaultConfig, OverlapConfig}

\* ------------------------------------------------------------------ strings
\* String.prototype.startsWith
StartsWith(s, p) == Len(p) <= Len(s) /\ SubSeq(s, 1, Len(p)) = p
\* String.prototype.includes
Includes(s, k) == \E i \in 1..(Len(s) - Len(k) + 1) : SubSeq(s, i, i + Len(k) - 1) = k

\* String.prototype.trim
RECURSIVE TrimLeft(_)
TrimLeft(s) == IF s # <<>> /\ Head(s) = " " THEN TrimLeft(Tail(s)) ELSE s
RECURSIVE TrimRight(_)
TrimRight(s) == IF s # <<>> /\ s[Len(s)] = " " THEN TrimRight(SubSeq(s, 1, Len(s) - 1)) ELSE s
Trim(s) == TrimRight(TrimLeft(s))

\* String.prototype.toLowerCase on the letters the messages use.
LowerChar(c) == IF c = "S" THEN "s" ELSE c
ToLowerCase(s) == [i \in 1..Len(s) |-> LowerChar(s[i])]

eveningKeywords == { <<"shui", "jiao">>, <<"wan", "an">>, <<"shui", "le">>, <<"xiu", "xi">>,
                     <<"wo", "yao", "shui", "le">> }
morningKeywords == { <<"zao", "an">>, <<"zao", "shang", "hao">>, <<"zao">>,
                     <<"wo", "xing", "le">>, <<"qi", "chuang", "le">> }
historyKeywords == { <<"wo", "de", "shui", "mian">>, <<"shui", "mian", "ji", "lu">>,
                     <<"wo", "shui", "le", "duo", "jiu">> }
RankPrefix == <<"s", "l", "e", "e", "p", ".", "r", "a", "n", "k", " ">>
HelpCommand == <<"s", "l", "e", "e", "p", ".", "h", "e", "l", "p">>
HelpKeyword == <<"shui", "mian", "bang", "zhu">>

\* The message texts (session.content) the model sends.
MsgGoodnight == <<"wan", "an">>
MsgMorning == <<" ", "zao", "an">>
MsgBoth == <<"wan", "an", " ", "zao", "an">>
MsgHowLong == <<"wo", "shui", "le", "duo", "jiu">>
MsgRank == RankPrefix \o <<"d", "a", "y">>
MsgHelp == HelpCommand
MsgOther == <<"S", "l", "e", "e", "p", ".", "h", "e", "l", "p", " ">>
Messages == {MsgGoodnight, MsgMorning, MsgBoth, MsgHowLong, MsgRank, MsgHelp, MsgOther}

\* Rank commands with a -top argument: 1, a negative number, a word, zero, a
\* number above the maximum, and none after -top.
TopOption == <<" ", "-", "t", "o", "p">>
MsgRankTop1 == RankPrefix \o <<"w", "e", "e", "k">> \o TopOption \o <<" ", "1">>
MsgRankTopNegative == RankPrefix \o <<"w", "e", "e", "k">> \o TopOption \o <<" ", "-", "1">>
MsgRankTopWord == RankPrefix \o <<"m", "o", "n", "t", "h">> \o TopOption \o <<" ", "x">>
MsgRankTopZero == RankPrefix \o <<"w", "e", "e", "k">> \o TopOption \o <<" ", "0">>
MsgRankTopLarge == RankPrefix \o <<"w", "e", "e", "k">> \o TopOption \o <<" ", "9", "9">>
MsgRankTopMissing == RankPrefix \o TopOption
TopMessages == {MsgRankTop1, MsgRankTopNegative, MsgRankTopWord, MsgRankTopZero,
                MsgRankTopLarge, MsgRankTopMissing}

\* A session: the message text and the user id the platform reports.  The
\* unidentified user sends the three kinds of message that ask for a user id;
\* the rank commands with -top come from one user (the leaderboard is the same
\* for every user).
Sessions ==
  {[content |-> m, uid |-> u] : m \in Messages, u \in Uids}
    \cup {[content |-> m, uid |-> 0] : m \in {MsgGoodnight, MsgMorning, MsgRank}}
    \cup {[content |-> m, uid |-> 1] : m \in TopMessages}

\* ------------------------------------------------------------ pure helpers
\* isInSpan with the end hour outside the window.
IsInSpan_EndExclusive(hour, cfg, type) ==
  LET start == IF type = "morning" THEN cfg.morningStart ELSE cfg.eveningStart
      end == IF type = "morning" THEN cfg.morningEnd ELSE cfg.eveningEnd
  IN IF start <= end THEN hour >= start /\ hour < end
                     ELSE hour >= start \/ hour < end

\* isInSpan
IsInSpan(hour, cfg, type) ==
  LET start == IF type = "morning" THEN cfg.morningStart ELSE cfg.eveningStart
      end == IF type = "morning" THEN cfg.morningEnd ELSE cfg.eveningEnd
  IN IF start <= end THEN hour >= start /\ hour <= end
                     ELSE hour >= start \/ hour <= end

\* Math.round of a / b for b > 0: the nearest integer, a half rounded up.
RoundDiv(a, b) == (2 * a + b) \div (2 * b)

\* calcSleepDuration taking the elapsed time modulo 24 hours.
CalcSleepDuration_Mod24h(sleepMs, wakeMs) ==
  RoundDiv((wakeMs - sleepMs) % MsPerDay, MsPerMinute)

\* calcSleepDuration
CalcSleepDuration(sleepMs, wakeMs) ==
  LET durationMs == IF wakeMs >= sleepMs THEN wakeMs - sleepMs
                                         ELSE wakeMs + 24 * 60 * 60 * 1000 - sleepMs
  IN RoundDiv(durationMs, MsPerMinute)

\* getSafeUserId: the id when it is a positive number, else null.
GetSafeUserId(s) == IF s.uid > 0 THEN s.uid ELSE Null

\* ------------------------------------------------------- middleware guards
\* The guards of the five middlewares (the negation of each one's "return next()").
SleepStartGuard(s, hour, cfg) ==
  LET content == ToLowerCase(Trim(s.content))
  IN /\ content # <<>>
     /\ \E k \in eveningKeywords : Includes(content, k)
     /\ IsInSpan(hour, cfg, "evening")

SleepEndGuard(s, hour, cfg) ==
  LET content == ToLowerCase(Trim(s.content))
  IN /\ content # <<>>
     /\ \E k \in morningKeywords : Includes(content, k)
     /\ IsInSpan(hour, cfg, "morning")

RankGuard(s) == LET content == Trim(s.content) IN content # <<>> /\ StartsWith(content, RankPrefix)

HistoryGuard(s) ==
  LET content == Trim(s.content)
  IN content # <<>> /\ \E k \in historyKeywords : Includes(content, k)

HelpGuard(s) == LET content == Trim(s.content) IN content = HelpCommand \/ content = HelpKeyword

MwGuard(name, s, hour, cfg) ==
  CASE name = "sleepStart" -> SleepStartGuard(s, hour, cfg)
    [] name = "sleepEnd" -> SleepEndGuard(s, hour, cfg)
    [] name = "rank" -> RankGuard(s)
    [] name = "history" -> HistoryGuard(s)
    [] name = "help" -> HelpGuard(s)

\* The middlewares with the good-morning one registered first.
Middlewares_EndFirst == <<"sleepEnd", "sleepStart", "rank", "history", "help">>

\* The middlewares in the order registerFeatures registers them.
Middlewares == <<"sleepStart", "sleepEnd", "rank", "history", "help">>

\* The middleware that answers: each one whose guard fails calls next(), which
\* enters the following one; "next" when the last one calls next() too.
RECURSIVE RunChain(_, _, _, _)
RunChain(chain, s, hour, cfg) ==
  IF chain = <<>> THEN "next"
  ELSE IF MwGuard(Head(chain), s, hour, cfg) THEN Head(chain)
  ELSE RunChain(Tail(chain), s, hour, cfg)

Dispatch(s, hour, cfg) == RunChain(Middlewares, s, hour, cfg)

\* The hours of the day, as Date.getHours() gives them.
Hours == 0..23

\* For every middleware (or "next"), hour and configuration: the sessions it answers.
RECURSIVE AnsweredTable(_)
AnsweredTable(keys) ==
  IF keys = {} THEN <<>>
  ELSE LET k == CHOOSE x \in keys : TRUE
       IN (k :> {s \in Sessions : Dispatch(s, k[2], k[3]) = k[1]}) @@ AnsweredTable(keys \ {k})
\* The table of each hour of the set hours.
RECURSIVE AnsweredAt(_)
AnsweredAt(hours) ==
  IF hours = {} THEN <<>>
  ELSE LET h == CHOOSE x \in hours : TRUE
       IN (h :> AnsweredTable(({"next"} \cup {Middlewares[i] : i \in 1..Len(Middlewares)})
                                \X {h} \X Configs))
            @@ AnsweredAt(hours \ {h})
Answered == AnsweredAt(Hours)
AnsweredBy(mw, hour, cfg) == Answered[hour][mw, hour, cfg]

\* ------------------------------------------------------------------- tables
\* A row of the user table as initModels extends it.
NewUser == [sleepTotal |-> 0, sleepCount |-> 0, lastSleepId |-> Null]

\* ctx.database.create('user', {id: uid, ...})
CreateUser(us, uid) == [us EXCEPT ![uid] = NewUser]

\* ctx.database.get(sleep_record, {uid, date: today})
TodayRecords(rs, uid, today) == {i \in 1..Len(rs) : rs[i].uid = uid /\ rs[i].date = today}

\* The unfinished-record query without its date condition.
UnfinishedAnyDay(rs, uid, today) ==
  {i \in 1..Len(rs) : rs[i].uid = uid /\ rs[i].wakeTime = EmptyStr}

\* ctx.database.get(sleep_record, uid = uid and date = today and wakeTime = '')
UnfinishedToday(rs, uid, today) ==
  {i \in 1..Len(rs) : rs[i].uid = uid /\ rs[i].date = today /\ rs[i].wakeTime = EmptyStr}

\* The latest-unfinished-record query without its uid condition.
LatestUnfinished_AnyUser(rs, uid) ==
  LET open == {i \in 1..Len(rs) : rs[i].wakeTime = EmptyStr}
  IN {i \in open : \A j \in open : rs[j].sleepTime <= rs[i].sleepTime}

\* The latest-record query without its wakeTime condition.
LatestOfAny(rs, uid) ==
  LET mine == {i \in 1..Len(rs) : rs[i].uid = uid}
  IN {i \in mine : \A j \in mine : rs[j].sleepTime <= rs[i].sleepTime}

\* ctx.database.get(sleep_record, uid = uid and wakeTime = '', sort sleepTime desc, limit 1):
\* the rows the query may return first (the order of equal sleepTimes is the database's).
LatestUnfinished(rs, uid) ==
  LET open == {i \in 1..Len(rs) : rs[i].uid = uid /\ rs[i].wakeTime = EmptyStr}
  IN {i \in open : \A j \in open : rs[j].sleepTime <= rs[i].sleepTime}

\* tx.create(sleep_record, {uid, sleepTime, date, wakeTime: '', duration: null}): id is autoInc.
CreateRecord(rs, uid, t, today) ==
  Append(rs, [id |-> Len(rs) + 1, uid |-> uid, sleepTime |-> t, wakeTime |-> EmptyStr,
              duration |-> Null, date |-> today])

\* The user update of a sleep-start that leaves sleepCount as it was read.
SetUserAfterSleep_NoCount(us, uid, recordId, sleepCount) ==
  IF us[uid] = NoRow THEN us
  ELSE [us EXCEPT ![uid].lastSleepId = recordId, ![uid].sleepCount = sleepCount]

\* tx.set('user', {id: uid}, {lastSleepId: record.id, sleepCount: user.sleepCount + 1})
SetUserAfterSleep(us, uid, recordId, sleepCount) ==
  IF us[uid] = NoRow THEN us
  ELSE [us EXCEPT ![uid].lastSleepId = recordId, ![uid].sleepCount = sleepCount + 1]

\* The record update of a sleep-end that sets wakeTime only.
SetRecordAwake_WakeOnly(rs, id, t, duration) ==
  [i \in 1..Len(rs) |-> IF rs[i].id = id THEN [rs[i] EXCEPT !.wakeTime = t] ELSE rs[i]]

\* ctx.database.set(sleep_record, {id}, {wakeTime, duration})
SetRecordAwake(rs, id, t, duration) ==
  [i \in 1..Len(rs) |-> IF rs[i].id = id
                         THEN [rs[i] EXCEPT !.wakeTime = t, !.duration = duration]
                         ELSE rs[i]]

\* The user update of a sleep-end that stores the duration instead of adding it.
SetUserAfterWake_Overwrite(us, uid, sleepTotal, duration) ==
  IF us[uid] = NoRow THEN us
  ELSE [us EXCEPT ![uid].sleepTotal = duration, ![uid].lastSleepId = Null]

\* The user update of a sleep-end that also counts the session it closes.
SetUserAfterWake_Counting(us, uid, sleepTotal, duration) ==
  IF us[uid] = NoRow THEN us
  ELSE [us EXCEPT ![uid].sleepTotal = sleepTotal + duration, ![uid].lastSleepId = Null,
                  ![uid].sleepCount = us[uid].sleepCount + 1]

\* ctx.database.set('user', {id: uid}, {sleepTotal: (user.sleepTotal || 0) + duration, lastSleepId: null})
SetUserAfterWake(us, uid, sleepTotal, duration) ==
  IF us[uid] = NoRow THEN us
  ELSE [us EXCEPT ![uid].sleepTotal = sleepTotal + duration, ![uid].lastSleepId = Null]

\* user.sleepTotal || 0
OrZero(x) == IF x = Null THEN 0 ELSE x

\* ------------------------------------------------------------------ queries
Min(a, b) == IF a <= b THEN a ELSE b
Max(a, b) == IF a >= b THEN a ELSE b

\* content.split(' ').filter(Boolean): the words between the spaces.
RECURSIVE SplitWords(_, _)
SplitWords(s, word) ==
  IF s = <<>> THEN (IF word = <<>> THEN <<>> ELSE <<word>>)
  ELSE IF Head(s) = " " THEN (IF word = <<>> THEN <<>> ELSE <<word>>) \o SplitWords(Tail(s), <<>>)
  ELSE SplitWords(Tail(s), Append(word, Head(s)))
Args(content) == SplitWords(content, <<>>)

\* Number(text) for the numeric form the messages use, a decimal integer with
\* an optional sign; IsNumeric is false where Number gives NaN.
Digits == <<"0", "1", "2", "3", "4", "5", "6", "7", "8", "9">>
IsDigit(c) == \E d \in 1..Len(Digits) : Digits[d] = c
DigitValue(c) == (CHOOSE d \in 1..Len(Digits) : Digits[d] = c) - 1
Unsigned(text) == IF text # <<>> /\ Head(text) \in {"-", "+"} THEN Tail(text) ELSE text
IsNumeric(text) == Unsigned(text) # <<>> /\ \A i \in 1..Len(Unsigned(text)) : IsDigit(Unsigned(text)[i])
RECURSIVE DigitsValue(_)
DigitsValue(ds) ==
  IF ds = <<>> THEN 0 ELSE 10 * DigitsValue(SubSeq(ds, 1, Len(ds) - 1)) + DigitValue(ds[Len(ds)])
NumberOf(text) == IF Head(text) = "-" THEN 0 - DigitsValue(Unsigned(text)) ELSE DigitsValue(Unsigned(text))

\* The largest top of a leaderboard.
MaxTop == 50

\* top = Math.min(topIndex > -1 ? (Number(args[topIndex + 1]) || defaultTop) : defaultTop, 50)
RankTop(args, defaultTop) ==
  LET topIndex == {i \in 1..Len(args) : StartsWith(args[i], <<"-", "t", "o", "p">>)}
      first == CHOOSE i \in topIndex : \A j \in topIndex : i <= j
      given == topIndex # {} /\ first < Len(args) /\ IsNumeric(args[first + 1])
                 /\ NumberOf(args[first + 1]) # 0
  IN Min(IF given THEN NumberOf(args[first + 1]) ELSE defaultTop, MaxTop)

\* The days that dayjs().subtract(1, 'month') goes back: the length of a month.
MonthLengths == {28, 29, 30, 31}

\* For every rank command and defaultTop: timeType (args[1]) and top.
RECURSIVE RankCommandTable(_)
RankCommandTable(keys) ==
  IF keys = {} THEN <<>>
  ELSE LET k == CHOOSE x \in keys : TRUE
           args == Args(Trim(k[1]))
       IN (k :> [timeType |-> args[2], top |-> RankTop(args, k[2])])
            @@ RankCommandTable(keys \ {k})
RankCommands ==
  RankCommandTable(({MsgRank} \cup TopMessages) \X {cfg.defaultTop : cfg \in Configs})
RankCommand(content, defaultTop) == RankCommands[content, defaultTop]

\* startDate of the leaderboard, 'week' unless timeType is 'day' or 'month': the
\* dates it can be.
RankStartDates(timeType, today) ==
  IF timeType = <<"d", "a", "y">> THEN {today}
  ELSE IF timeType = <<"m", "o", "n", "t", "h">> THEN {today - n : n \in MonthLengths}
  ELSE {today - 7}

\* ctx.database.get(sleep_record, duration != null and startDate <= date <= endDate),
\* in the order of the primary key.
RankRecords(rs, startDate, endDate) ==
  SelectSeq(rs, LAMBDA r : r.duration # Null /\ r.date >= startDate /\ r.date <= endDate)

\* records.forEach: the statistics of each user, and the uids in the order the
\* keys were added to userStats.
RECURSIVE InsertionOrder(_)
InsertionOrder(rs) ==
  IF rs = <<>> THEN <<>>
  ELSE LET before == InsertionOrder(SubSeq(rs, 1, Len(rs) - 1))
           uid == rs[Len(rs)].uid
       IN IF \E i \in 1..Len(before) : before[i] = uid THEN before ELSE Append(before, uid)

RECURSIVE Ascending(_)
Ascending(ids) ==
  IF ids = {} THEN <<>>
  ELSE LET least == CHOOSE i \in ids : \A j \in ids : i <= j
       IN <<least>> \o Ascending(ids \ {least})

RECURSIVE SumOf(_, _)
SumOf(rs, uid) ==
  IF rs = <<>> THEN 0
  ELSE (IF Head(rs).uid = uid THEN Head(rs).duration ELSE 0) + SumOf(Tail(rs), uid)

UserStat(rs, uid) ==
  [uid |-> uid, total |-> SumOf(rs, uid), count |-> Len(SelectSeq(rs, LAMBDA r : r.uid = uid))]

\* Object.values(userStats): the keys that are array indices in ascending
\* order, then the other keys in the order they were added.
ObjectValues(rs) ==
  LET added == InsertionOrder(rs)
      indices == Ascending({rs[i].uid : i \in 1..Len(rs)} \ SnowflakeUids)
      keys == indices \o SelectSeq(added, LAMBDA uid : uid \in SnowflakeUids)
  IN [k \in 1..Len(keys) |-> UserStat(rs, keys[k])]

\* Array.prototype.sort((a, b) => b.total - a.total): stable, equal totals keep their order.
RECURSIVE SortByTotal(_)
SortByTotal(stats) ==
  IF stats = <<>> THEN <<>>
  ELSE LET sorted == SortByTotal(SubSeq(stats, 1, Len(stats) - 1))
           x == stats[Len(stats)]
           ahead == Cardinality({i \in 1..Len(sorted) : sorted[i].total >= x.total})
       IN SubSeq(sorted, 1, ahead) \o <<x>> \o SubSeq(sorted, ahead + 1, Len(sorted))

\* Array.prototype.slice(0, top): a negative top counts from the end.
Slice(seq, top) ==
  IF top >= 0 THEN SubSeq(seq, 1, Min(top, Len(seq)))
  ELSE SubSeq(seq, 1, Max(Len(seq) + top, 0))

\* The leaderboard: the empty-record tip, or top, the first date of the window
\* (which the title names) and the ranked statistics.
RankResult(rs, top, startDate, today) ==
  LET found == RankRecords(rs, startDate, today)
  IN IF found = <<>> THEN [res |-> "empty", value |-> Null]
     ELSE [res |-> "answered",
           value |-> [top |-> top, startDate |-> startDate,
                      list |-> Slice(SortByTotal(ObjectValues(found)), top)]]

\* ctx.database.get(sleep_record, uid and sevenDaysAgo <= date <= today, sort date desc):
\* the later dates first, equal dates in the order of the primary key.
RECURSIVE SortByDateDesc(_)
SortByDateDesc(rs) ==
  IF rs = <<>> THEN <<>>
  ELSE LET sorted == SortByDateDesc(SubSeq(rs, 1, Len(rs) - 1))
           x == rs[Len(rs)]
           ahead == Cardinality({i \in 1..Len(sorted) : sorted[i].date >= x.date})
       IN SubSeq(sorted, 1, ahead) \o <<x>> \o SubSeq(sorted, ahead + 1, Len(sorted))

HistoryRecords(rs, uid, today) ==
  SortByDateDesc(SelectSeq(rs, LAMBDA r : r.uid = uid /\ r.date >= today - 7 /\ r.date <= today))

\* A value is truthy unless it is null, 0 or ''.
Truthy(x) == x # Null /\ x # 0 /\ x # EmptyStr

\* record.duration ? ... : incomplete
IsCompleted(r) == Truthy(r.duration)

\* One line of the history: the record (id), its date, sleep time, wake time
\* (or none) and its duration (or incomplete).
HistoryLine(r) ==
  [id |-> r.id, date |-> r.date, sleep |-> FormatHHmm(r.sleepTime),
   wake |-> IF Truthy(r.wakeTime) THEN FormatHHmm(r.wakeTime) ELSE <<>>,
   completed |-> IsCompleted(r),
   duration |-> IF IsCompleted(r) THEN r.duration ELSE Null]

RECURSIVE TotalDuration(_)
TotalDuration(rs) ==
  IF rs = <<>> THEN 0
  ELSE (IF IsCompleted(Head(rs)) THEN Head(rs).duration ELSE 0) + TotalDuration(Tail(rs))

\* The personal history: the empty-record tip, or the lines, and the statistics
\* line (avg) when a record is completed.
HistoryResult(rs, uid, today) ==
  LET found == HistoryRecords(rs, uid, today)
      completedCount == Len(SelectSeq(found, IsCompleted))
  IN IF found = <<>> THEN [res |-> "empty", value |-> Null]
     ELSE [res |-> "answered",
           value |-> [lines |-> [i \in 1..Len(found) |-> HistoryLine(found[i])],
                      completedCount |-> completedCount,
                      avg |-> IF completedCount > 0
                              THEN RoundDiv(TotalDuration(found), completedCount) ELSE Null]]

\* -------------------------------------------------------------------- state
VARIABLES
  config,    \* the plugin's Config
  now,       \* the wall clock, new Date()
  users,     \* the user table: uid -> row, or NoRow
  records,   \* the sleep_record table: the rows in id order
  last,      \* what the middleware chain answered to the latest message
  inflight,  \* SpecConc: the middleware invocations suspended at an await
  span       \* SpecSpan: the latest call of isInSpan, its arguments and its result

vars == <<config, now, users, records, last, inflight, span>>

\* No message answered since the clock last moved.
NoReply == [mw |-> "none", session |-> Null, at |-> Null, res |-> "none", time |-> Null,
            value |-> Null]

\* The answer of middleware mw to session s received at t: the outcome res, the
\* HH:mm the text carries (time) and the number it carries (value).
Reply(mw, s, t, res, time, value) ==
  [mw |-> mw, session |-> s, at |-> t, res |-> res, time |-> time, value |-> value]

Idle == [pc |-> "idle"]

\* isInSpan has not been called.
NoCall == [hour |-> Null, type |-> "none", out |-> FALSE]

Init ==
  /\ config \in Configs
  /\ now = FirstInstant
  /\ users = [u \in Uids |-> NoRow]
  /\ records = <<>>
  /\ last = NoReply
  /\ inflight = [h \in 1..MaxHandlers |-> Idle]
  /\ span = NoCall

\* Time passes between two messages.
Tick ==
  /\ \E t \in Instants : t > now /\ now' = t
  /\ last' = NoReply
  /\ UNCHANGED <<span, config, users, records, inflight>>

\* The answer of the middleware has been sent; the next message can be taken.
SendReply ==
  /\ last # NoReply
  /\ last' = NoReply
  /\ UNCHANGED <<span, config, now, users, records, inflight>>

\* ------------------------------------------ the middlewares, run to completion
\* Middleware 1: a goodnight message inside the evening window.
SleepStart(s) ==
  /\ last = NoReply
  /\ s \in AnsweredBy("sleepStart", GetHours(now), config)
  /\ LET uid == GetSafeUserId(s)
         today == FormatDate(now)
     IN IF uid = Null
        THEN /\ last' = Reply("sleepStart", s, now, "noUid", Null, Null)
             /\ UNCHANGED <<users, records>>
        ELSE LET found == users[uid] # NoRow
                 us1 == IF found THEN users ELSE CreateUser(users, uid)
                 sleepCount == IF found THEN users[uid].sleepCount ELSE 0
                 newCount == Cardinality(TodayRecords(records, uid, today)) + 1
                 unfinished == UnfinishedToday(records, uid, today)
             IN IF unfinished # {}
                THEN \E i \in unfinished :
                       /\ last' = Reply("sleepStart", s, now, "repeat",
                                        FormatHHmm(records[i].sleepTime), Null)
                       /\ users' = us1
                       /\ records' = records
                ELSE /\ Len(records) < MaxRecords
                     /\ records' = CreateRecord(records, uid, now, today)
                     /\ users' = SetUserAfterSleep(us1, uid, Len(records) + 1, sleepCount)
                     /\ last' = Reply("sleepStart", s, now,
                                      IF newCount >= config.manyEveningThreshold
                                      THEN "many" ELSE "created",
                                      FormatHHmm(now), newCount)
  /\ UNCHANGED <<span, config, now, inflight>>

\* A sleep-end that closes only the session lastSleepId points to, as
\* validateLastSleepId reads the pointer.
SleepEnd_ByPointer(s) ==
  /\ last = NoReply
  /\ s \in AnsweredBy("sleepEnd", GetHours(now), config)
  /\ LET uid == GetSafeUserId(s)
         pointed == IF uid = Null \/ users[uid] = NoRow THEN {}
                    ELSE {i \in LatestUnfinished(records, uid) :
                            records[i].id = users[uid].lastSleepId}
     IN IF uid = Null
        THEN /\ last' = Reply("sleepEnd", s, now, "noUid", Null, Null)
             /\ UNCHANGED <<users, records>>
        ELSE IF users[uid] = NoRow
        THEN /\ last' = Reply("sleepEnd", s, now, "noUser", Null, Null)
             /\ UNCHANGED <<users, records>>
        ELSE IF pointed = {}
        THEN /\ last' = Reply("sleepEnd", s, now, "noUnfinished", Null, Null)
             /\ UNCHANGED <<users, records>>
        ELSE \E i \in pointed :
               LET duration == CalcSleepDuration(records[i].sleepTime, now)
               IN /\ records' = SetRecordAwake(records, records[i].id, now, duration)
                  /\ users' = SetUserAfterWake(users, uid, OrZero(users[uid].sleepTotal), duration)
                  /\ last' = Reply("sleepEnd", s, now, "closed",
                                   FormatHHmm(records[i].sleepTime), duration)
  /\ UNCHANGED <<span, config, now, inflight>>

\* Middleware 2: a good-morning message inside the morning window.
SleepEnd(s) ==
  /\ last = NoReply
  /\ s \in AnsweredBy("sleepEnd", GetHours(now), config)
  /\ LET uid == GetSafeUserId(s)
     IN IF uid = Null
        THEN /\ last' = Reply("sleepEnd", s, now, "noUid", Null, Null)
             /\ UNCHANGED <<users, records>>
        ELSE IF users[uid] = NoRow
        THEN /\ last' = Reply("sleepEnd", s, now, "noUser", Null, Null)
             /\ UNCHANGED <<users, records>>
        ELSE IF LatestUnfinished(records, uid) = {}
        THEN /\ last' = Reply("sleepEnd", s, now, "noUnfinished", Null, Null)
             /\ UNCHANGED <<users, records>>
        ELSE \E i \in LatestUnfinished(records, uid) :
               LET duration == CalcSleepDuration(records[i].sleepTime, now)
               IN /\ records' = SetRecordAwake(records, records[i].id, now, duration)
                  /\ users' = SetUserAfterWake(users, uid, OrZero(users[uid].sleepTotal), duration)
                  /\ last' = Reply("sleepEnd", s, now, "closed",
                                   FormatHHmm(records[i].sleepTime), duration)
  /\ UNCHANGED <<span, config, now, inflight>>

\* Middleware 3: the leaderboard.
Rank(s) ==
  /\ last = NoReply
  /\ s \in AnsweredBy("rank", GetHours(now), config)
  /\ IF GetSafeUserId(s) = Null
     THEN last' = Reply("rank", s, now, "noUid", Null, Null)
     ELSE LET command == RankCommand(s.content, config.defaultTop)
          IN \E startDate \in RankStartDates(command.timeType, FormatDate(now)) :
               LET result == RankResult(records, command.top, startDate, FormatDate(now))
               IN last' = Reply("rank", s, now, result.res, Null, result.value)
  /\ UNCHANGED <<span, config, now, users, records, inflight>>

\* A personal history that validates lastSleepId as validateLastSleepId does.
History_Validating(s) ==
  /\ last = NoReply
  /\ s \in AnsweredBy("history", GetHours(now), config)
  /\ LET uid == GetSafeUserId(s)
     IN /\ uid # Null
        /\ last' = Reply("history", s, now, "answered", Null, Null)
        /\ users' = IF users[uid] = NoRow THEN users ELSE [users EXCEPT ![uid].lastSleepId = Null]
  /\ UNCHANGED <<span, config, now, records, inflight>>

\* Middleware 4: the personal history.
History(s) ==
  /\ last = NoReply
  /\ s \in AnsweredBy("history", GetHours(now), config)
  /\ LET uid == GetSafeUserId(s)
     IN IF uid = Null
        THEN last' = Reply("history", s, now, "noUid", Null, Null)
        ELSE LET result == HistoryResult(records, uid, FormatDate(now))
             IN last' = Reply("history", s, now, result.res, Null, result.value)
  /\ UNCHANGED <<span, config, now, users, records, inflight>>

\* Middleware 5: the help text.
Help(s) ==
  /\ last = NoReply
  /\ s \in AnsweredBy("help", GetHours(now), config)
  /\ last' = Reply("help", s, now, "answered", Null, Null)
  /\ UNCHANGED <<span, config, now, users, records, inflight>>

\* No middleware answers: the message is passed on.
PassThrough(s) ==
  /\ last = NoReply
  /\ s \in AnsweredBy("next", GetHours(now), config)
  /\ last' = Reply("next", s, now, "next", Null, Null)
  /\ UNCHANGED <<span, config, now, users, records, inflight>>

\* The sessions that middleware mw answers now.
Inbox(mw) == AnsweredBy(mw, GetHours(now), config)

Next ==
  \/ Tick
  \/ SendReply
  \/ \E s \in Inbox("sleepStart") : SleepStart(s)
  \/ \E s \in Inbox("sleepEnd") : SleepEnd(s)
  \/ \E s \in Inbox("rank") : Rank(s)
  \/ \E s \in Inbox("history") : History(s)
  \/ \E s \in Inbox("help") : Help(s)
  \/ \E s \in Inbox("next") : PassThrough(s)

\* Every message is processed to completion before the next one arrives.
Spec == Init /\ [][Next]_vars

\* ---------------------------------- the middlewares, interleaved at each await
\* Several messages are in flight: an invocation runs up to its next await, the
\* database performs the awaited operation in one step, and the invocations take
\* their steps in any order.  The messages are the goodnight and the
\* good-morning message of an identified user.
ConcSessions == {s \in Sessions : s.uid \in Uids /\ s.content \in {MsgGoodnight, MsgMorning}}

\* The instants at which they arrive: one evening and the morning after it.
ConcInstants == {At(0, 23, 0, 0), At(1, 7, 0, 0), At(1, 7, 0, 40)}

\* A suspended invocation: the middleware, its session and uid, its `now`, the
\* user row it read (user), newCount (count) and the record it read (rec).
Suspended(mw, s, t) ==
  [pc |-> "getUser", mw |-> mw, s |-> s, uid |-> GetSafeUserId(s), t |-> t,
   user |-> NoRow, count |-> Null, rec |-> Null]

At1(h, pc, mw) == inflight[h] # Idle /\ inflight[h].pc = pc /\ inflight[h].mw = mw

Goto(h, pc) == inflight' = [inflight EXCEPT ![h].pc = pc]

\* The invocation returns res: its answer is sent and it is gone.
Return(h, res, time, value) ==
  /\ last' = Reply(inflight[h].mw, inflight[h].s, inflight[h].t, res, time, value)
  /\ inflight' = [inflight EXCEPT ![h] = Idle]

\* A message arrives (its invocation is numbered with the first free number):
\* the guard is evaluated and the first query is awaited.
Receive(h, s) ==
  /\ last = NoReply
  /\ inflight[h] = Idle
  /\ \A g \in 1..(h - 1) : inflight[g] # Idle
  /\ \E mw \in {"sleepStart", "sleepEnd"} :
       /\ s \in Inbox(mw)
       /\ inflight' = [inflight EXCEPT ![h] = Suspended(mw, s, now)]
  /\ UNCHANGED <<span, config, now, users, records, last>>

\* sleep-start: await ctx.database.get('user', {id: uid})
StartGetUser(h) ==
  /\ last = NoReply
  /\ At1(h, "getUser", "sleepStart")
  /\ LET found == users[inflight[h].uid] # NoRow
     IN inflight' = [inflight EXCEPT
                       ![h].user = IF found THEN users[inflight[h].uid] ELSE [sleepCount |-> 0],
                       ![h].pc = IF found THEN "getToday" ELSE "createUser"]
  /\ UNCHANGED <<span, config, now, users, records, last>>

\* sleep-start: await ctx.database.create('user', ...); a row with that id makes it throw.
StartCreateUser(h) ==
  /\ last = NoReply
  /\ At1(h, "createUser", "sleepStart")
  /\ IF users[inflight[h].uid] # NoRow
     THEN Return(h, "dbError", Null, Null) /\ UNCHANGED users
     ELSE users' = CreateUser(users, inflight[h].uid) /\ Goto(h, "getToday") /\ UNCHANGED last
  /\ UNCHANGED <<span, config, now, records>>

\* sleep-start: await ctx.database.get(sleep_record, {uid, date: today})
StartGetToday(h) ==
  /\ last = NoReply
  /\ At1(h, "getToday", "sleepStart")
  /\ inflight' = [inflight EXCEPT
                    ![h].count = Cardinality(TodayRecords(records, inflight[h].uid,
                                                          FormatDate(inflight[h].t))) + 1,
                    ![h].pc = "getUnfinished"]
  /\ UNCHANGED <<span, config, now, users, records, last>>

\* sleep-start: await the unfinished-record query, and the repeat answer.
StartGetUnfinished(h) ==
  /\ last = NoReply
  /\ At1(h, "getUnfinished", "sleepStart")
  /\ LET unfinished == UnfinishedToday(records, inflight[h].uid, FormatDate(inflight[h].t))
     IN IF unfinished # {}
        THEN \E i \in unfinished : Return(h, "repeat", FormatHHmm(records[i].sleepTime), Null)
        ELSE Goto(h, "transact") /\ UNCHANGED last
  /\ UNCHANGED <<span, config, now, users, records>>

\* sleep-start: await ctx.database.transact(create the record, update the user)
StartTransact(h) ==
  /\ last = NoReply
  /\ At1(h, "transact", "sleepStart")
  /\ Len(records) < MaxConcRecords
  /\ records' = CreateRecord(records, inflight[h].uid, inflight[h].t, FormatDate(inflight[h].t))
  /\ users' = SetUserAfterSleep(users, inflight[h].uid, Len(records) + 1,
                                inflight[h].user.sleepCount)
  /\ Return(h, IF inflight[h].count >= config.manyEveningThreshold THEN "many" ELSE "created",
            FormatHHmm(inflight[h].t), inflight[h].count)
  /\ UNCHANGED <<span, config, now>>

\* sleep-end: await ctx.database.get('user', {id: uid})
EndGetUser(h) ==
  /\ last = NoReply
  /\ At1(h, "getUser", "sleepEnd")
  /\ IF users[inflight[h].uid] = NoRow
     THEN Return(h, "noUser", Null, Null)
     ELSE /\ inflight' = [inflight EXCEPT ![h].user = users[inflight[h].uid],
                                          ![h].pc = "getRecord"]
          /\ UNCHANGED last
  /\ UNCHANGED <<span, config, now, users, records>>

\* sleep-end: await the latest-unfinished-record query
EndGetRecord(h) ==
  /\ last = NoReply
  /\ At1(h, "getRecord", "sleepEnd")
  /\ IF LatestUnfinished(records, inflight[h].uid) = {}
     THEN Return(h, "noUnfinished", Null, Null)
     ELSE /\ \E i \in LatestUnfinished(records, inflight[h].uid) :
               inflight' = [inflight EXCEPT ![h].rec = records[i], ![h].pc = "setRecord"]
          /\ UNCHANGED last
  /\ UNCHANGED <<span, config, now, users, records>>

\* sleep-end: await ctx.database.set(sleep_record, {id}, {wakeTime, duration})
EndSetRecord(h) ==
  /\ last = NoReply
  /\ At1(h, "setRecord", "sleepEnd")
  /\ records' = SetRecordAwake(records, inflight[h].rec.id, inflight[h].t,
                               CalcSleepDuration(inflight[h].rec.sleepTime, inflight[h].t))
  /\ Goto(h, "setUser")
  /\ UNCHANGED <<span, config, now, users, last>>

\* sleep-end: await ctx.database.set('user', {id: uid}, {sleepTotal, lastSleepId: null})
EndSetUser(h) ==
  /\ last = NoReply
  /\ At1(h, "setUser", "sleepEnd")
  /\ LET duration == CalcSleepDuration(inflight[h].rec.sleepTime, inflight[h].t)
     IN /\ users' = SetUserAfterWake(users, inflight[h].uid,
                                     OrZero(inflight[h].user.sleepTotal), duration)
        /\ Return(h, "closed", FormatHHmm(inflight[h].rec.sleepTime), duration)
  /\ UNCHANGED <<span, config, now, records>>

\* The awaited database call throws: the catch block answers with the dbError
\* tip, and what the invocation wrote before stays written.
DatabaseThrows(h) ==
  /\ last = NoReply
  /\ inflight[h] # Idle
  /\ Return(h, "dbError", Null, Null)
  /\ UNCHANGED <<span, config, now, users, records>>

\* Time passes; while an invocation is suspended, no more than a database call takes.
TickConc ==
  /\ \E t \in ConcInstants :
       /\ t > now
       /\ (\A h \in 1..MaxHandlers : inflight[h] = Idle) \/ t - now <= MaxAwaitMs
       /\ now' = t
  /\ last' = NoReply
  /\ UNCHANGED <<span, config, users, records, inflight>>

NextConc ==
  \/ TickConc
  \/ SendReply
  \/ \E h \in 1..MaxHandlers : \E s \in ConcSessions : Receive(h, s)
  \/ \E h \in 1..MaxHandlers : StartGetUser(h)
  \/ \E h \in 1..MaxHandlers : StartCreateUser(h)
  \/ \E h \in 1..MaxHandlers : StartGetToday(h)
  \/ \E h \in 1..MaxHandlers : StartGetUnfinished(h)
  \/ \E h \in 1..MaxHandlers : StartTransact(h)
  \/ \E h \in 1..MaxHandlers : EndGetUser(h)
  \/ \E h \in 1..MaxHandlers : EndGetRecord(h)
  \/ \E h \in 1..MaxHandlers : EndSetRecord(h)
  \/ \E h \in 1..MaxHandlers : EndSetUser(h)
  \/ \E h \in 1..MaxHandlers : DatabaseThrows(h)

\* The plugin runs with its default configuration.
InitConc == Init /\ config = DefaultConfig

\* Messages are processed concurrently, as the host runs the middleware chain.
SpecConc == InitConc /\ [][NextConc]_vars

\* ------------------------------------------------- isInSpan on every window
\* Config.time with one window set to (a, b), every hour being 0..23 as the
\* schema bounds it; the other window is the default one.
SpanConfigs ==
  {[DefaultConfig EXCEPT !.morningStart = a, !.morningEnd = b] : a, b \in 0..23}
    \cup {[DefaultConfig EXCEPT !.eveningStart = a, !.eveningEnd = b] : a, b \in 0..23}

\* isInSpan(hour, config, type) is called, as the two guards call it.
IsInSpanCall(hour, type) ==
  /\ span' = [hour |-> hour, type |-> type, out |-> IsInSpan(hour, config, type)]
  /\ UNCHANGED <<config, now, users, records, last, inflight>>

NextSpan == \E hour \in 0..23 : \E type \in {"morning", "evening"} : IsInSpanCall(hour, type)

InitSpan ==
  /\ config \in SpanConfigs
  /\ now = FirstInstant
  /\ users = [u \in Uids |-> NoRow]
  /\ records = <<>>
  /\ last = NoReply
  /\ inflight = [h \in 1..MaxHandlers |-> Idle]
  /\ span = NoCall

\* isInSpan applied to every hour and every window.
SpecSpan == InitSpan /\ [][NextSpan]_vars

\* ------------------------------------- sleep-start and sleep-end at every hour
\* The clock of SpecDay: every full hour of MaxDays consecutive days.
DayInstants == {At(d, h, 0, 0) : d \in 0..(MaxDays - 1), h \in 0..23}

\* One user says goodnight and good morning.
DaySessions == {s \in Sessions : s.uid = 1 /\ s.content \in {MsgGoodnight, MsgMorning}}

\* An hour passes; the clock never runs backwards.
TickDay ==
  /\ now + MsPerHour \in DayInstants
  /\ now' = now + MsPerHour
  /\ last' = NoReply
  /\ UNCHANGED <<span, config, users, records, inflight>>

NextDay ==
  \/ TickDay
  \/ SendReply
  \/ \E s \in Inbox("sleepStart") \cap DaySessions : SleepStart(s)
  \/ \E s \in Inbox("sleepEnd") \cap DaySessions : SleepEnd(s)

InitDay ==
  /\ config \in Configs
  /\ now = At(0, 0, 0, 0)
  /\ users = [u \in Uids |-> NoRow]
  /\ records = <<>>
  /\ last = NoReply
  /\ inflight = [h \in 1..MaxHandlers |-> Idle]
  /\ span = NoCall

\* One user's goodnights and good mornings, each processed to completion, at any
\* hours of the day in the order of the clock.
SpecDay == InitDay /\ [][NextDay]_vars

\* ------------------------------------------------------ views of the tables
\* The ids of user u's rows, of the open ones (wakeTime unset) and of the closed ones.
RowsOf(u) == {i \in 1..Len(records) : records[i].uid = u}
OpenOf(u) == {i \in RowsOf(u) : records[i].wakeTime = EmptyStr}
ClosedOf(u) == {i \in RowsOf(u) : records[i].wakeTime # EmptyStr}

RECURSIVE SumDurations(_)
SumDurations(ids) ==
  IF ids = {} THEN 0
  ELSE LET i == CHOOSE x \in ids : TRUE
       IN (IF records[i].duration = Null THEN 0 ELSE records[i].duration) + SumDurations(ids \ {i})

\* The step just taken is the answer of middleware mw to an identified user.
Answers(mw) == last'.mw = mw /\ last'.res # "noUid"

\* ------------------------------------------------------------------- claims
\* C1: after any sequence of sleep-starts and sleep-ends, each run to completion,
\* every user has at most one session with wakeAt unset.
C1_AtMostOneOpen == \A u \in Uids : Cardinality(OpenOf(u)) <= 1

\* C3: for every user, sleepTotal is the sum of the durations of the user's
\* closed sessions (a user without a row has no session).
C3_TotalReconciles ==
  \A u \in Uids : IF users[u] = NoRow THEN RowsOf(u) = {}
                  ELSE users[u].sleepTotal = SumDurations(ClosedOf(u))

C3_Witness ==
  \E u \in Uids : /\ users[u] # NoRow
                  /\ Cardinality(ClosedOf(u)) = 2
                  /\ \A i \in ClosedOf(u) : records[i].duration > 0

C5_PointerConsistent ==
  \A u \in Uids :
    IF users[u] = NoRow THEN OpenOf(u) = {}
    ELSE IF users[u].lastSleepId = Null THEN OpenOf(u) = {}
    ELSE OpenOf(u) = {users[u].lastSleepId}

\* C6: a sleep-start answers "repeat" exactly when the user has an open session
\* dated today; it then carries that session's sleepAt and leaves both tables as
\* they are.  Otherwise it appends exactly one open row with sleepAt = now and
\* day = date(now).
C6_DuplicateSleepStart ==
  [][Answers("sleepStart") =>
       LET u == last'.session.uid
           openToday == {i \in OpenOf(u) : records[i].date = FormatDate(now)}
       IN IF openToday # {}
          THEN /\ last'.res = "repeat"
               /\ \E i \in openToday : last'.time = FormatHHmm(records[i].sleepTime)
               /\ records' = records
               /\ users' = users
          ELSE /\ last'.res \in {"created", "many"}
               /\ Len(records') = Len(records) + 1
               /\ SubSeq(records', 1, Len(records)) = records
               /\ LET r == records'[Len(records')]
                  IN /\ r.uid = u
                     /\ r.sleepTime = now
                     /\ r.date = FormatDate(now)
                     /\ r.wakeTime = EmptyStr
                     /\ r.duration = Null]_vars

C6_Witness ==
  /\ last.mw = "sleepStart" /\ last.res = "repeat"
  /\ \E i \in OpenOf(last.session.uid) : records[i].sleepTime < last.at

\* C7: the duration of every closed session is non-negative and is the elapsed
\* time from sleepAt to wakeAt in minutes, rounded to the nearest minute.
C7_DurationIsElapsed ==
  \A i \in 1..Len(records) :
    records[i].wakeTime # EmptyStr =>
      LET elapsed == records[i].wakeTime - records[i].sleepTime
          diff == records[i].duration * MsPerMinute - elapsed
      IN /\ records[i].duration >= 0
         /\ elapsed >= 0
         /\ 2 * diff <= MsPerMinute
         /\ 2 * diff > -MsPerMinute

\* A session of 23:00 to 07:00 (480 minutes) beside one longer than 24 hours.
C7_Witness ==
  /\ \E i \in 1..Len(records) : /\ records[i].sleepTime = At(0, 23, 0, 0)
                                /\ records[i].wakeTime = At(1, 7, 0, 0)
                                /\ records[i].duration = 480
  /\ \E i \in 1..Len(records) : /\ records[i].wakeTime # EmptyStr
                                /\ records[i].wakeTime - records[i].sleepTime > MsPerDay

\* C8: a sleep-end for a user without a row or without an open session answers
\* "no open session" and leaves both tables as they are.
C8_NothingToClose ==
  [][Answers("sleepEnd") =>
       LET u == last'.session.uid
       IN (users[u] = NoRow \/ OpenOf(u) = {}) =>
            /\ last'.res = (IF users[u] = NoRow THEN "noUser" ELSE "noUnfinished")
            /\ records' = records
            /\ users' = users]_vars

C8_Witness ==
  /\ last.mw = "sleepEnd" /\ last.res = "noUnfinished"
  /\ ClosedOf(last.session.uid) # {}

\* The first middleware, in the order sleep-start, sleep-end, rank, history,
\* help, whose guard holds for session s at that hour; for every session, hour
\* and configuration.
FirstGuard(s, hour, cfg) ==
  IF SleepStartGuard(s, hour, cfg) THEN "sleepStart"
  ELSE IF SleepEndGuard(s, hour, cfg) THEN "sleepEnd"
  ELSE IF RankGuard(s) THEN "rank"
  ELSE IF HistoryGuard(s) THEN "history"
  ELSE IF HelpGuard(s) THEN "help"
  ELSE "next"
RECURSIVE FirstGuardTable(_)
FirstGuardTable(keys) ==
  IF keys = {} THEN <<>>
  ELSE LET k == CHOOSE x \in keys : TRUE
       IN (k :> FirstGuard(k[1], k[2], k[3])) @@ FirstGuardTable(keys \ {k})
\* The table of each hour of the set hours.
RECURSIVE FirstGuardsAt(_)
FirstGuardsAt(hours) ==
  IF hours = {} THEN <<>>
  ELSE LET h == CHOOSE x \in hours : TRUE
       IN (h :> FirstGuardTable(Sessions \X {h} \X Configs)) @@ FirstGuardsAt(hours \ {h})
FirstGuards == FirstGuardsAt(Hours)

\* C10: the middlewares are tried in the order sleep-start, sleep-end, rank,
\* history, help, and only the first whose guard holds answers: no other one
\* creates or closes a session, and a message none of them answers is passed on
\* with both tables as they are.
C10_FirstMatchOnly ==
  [][last'.mw # "none" =>
       LET first == FirstGuards[GetHours(now)][last'.session, GetHours(now), config]
       IN /\ last'.mw = first
          /\ first # "sleepStart" => Len(records') = Len(records)
          /\ first # "sleepEnd" => \A i \in 1..Len(records) : records'[i] = records[i]
          /\ first \notin {"sleepStart", "sleepEnd"} => records' = records /\ users' = users]_vars

\* A message with both keywords, at an hour inside both windows, opened a session.
C10_Witness ==
  /\ last.mw = "sleepStart" /\ last.res = "created"
  /\ last.session.content = MsgBoth
  /\ SleepEndGuard(last.session, GetHours(last.at), config)
  /\ OpenOf(last.session.uid) # {}

\* C2: two sleep-starts of one user on one calendar day never both pass the
\* open-session check and both create a row: the user never has two open rows
\* dated the same day.
C2_NoDoubleCreate ==
  \A u \in Uids : \A i, j \in OpenOf(u) : records[i].date = records[j].date => i = j

\* C9: a closed session never changes again (wakeAt, durationMinutes, id, userId
\* and the rest of its row), and no row is deleted, whatever the interleaving.
C9_ClosedIsImmutable ==
  [][/\ Len(records') >= Len(records)
     /\ \A i \in 1..Len(records) :
          /\ records'[i].id = records[i].id
          /\ records'[i].uid = records[i].uid
          /\ records[i].wakeTime # EmptyStr => records'[i] = records[i]]_vars

\* C11: for every hour and every window (start, end), isInSpan is true exactly
\* when start <= hour <= end if start <= end, and exactly when hour >= start or
\* hour <= end if start > end; so 21 and 3 are inside (21, 3), 4 is outside it
\* and 12 is inside (6, 12).
C11_WindowTest ==
  span # NoCall =>
    LET start == IF span.type = "morning" THEN config.morningStart ELSE config.eveningStart
        end == IF span.type = "morning" THEN config.morningEnd ELSE config.eveningEnd
        hour == span.hour
    IN /\ start <= end => (span.out <=> (start <= hour /\ hour <= end))
       /\ start > end => (span.out <=> (hour >= start \/ hour <= end))
       /\ (start = 21 /\ end = 3 /\ hour \in {21, 3}) => span.out
       /\ (start = 21 /\ end = 3 /\ hour = 4) => ~span.out
       /\ (start = 6 /\ end = 12 /\ hour = 12) => span.out

\* The end hour of a window that crosses midnight is inside it.
C11_Witness ==
  /\ span.type = "evening" /\ span.hour = 3 /\ span.out
  /\ config.eveningStart = 21 /\ config.eveningEnd = 3

\* What a leaderboard answered at last.at ranks: the closed sessions of user u in
\* its window, the users that have one, and their number.
InWindow(u) ==
  {i \in RowsOf(u) : /\ records[i].duration # Null
                     /\ records[i].date >= last.value.startDate
                     /\ records[i].date <= FormatDate(last.at)}
Ranked == {u \in Uids : InWindow(u) # {}}
RankedBefore(a, b) ==
  \/ SumDurations(InWindow(a)) > SumDurations(InWindow(b))
  \/ SumDurations(InWindow(a)) = SumDurations(InWindow(b)) /\ a < b

\* C12: the leaderboard lists users by descending sum of the durations of their
\* closed sessions in the window, users with equal sums by ascending user id,
\* and it is the first top entries of that order.
C12_LeaderboardOrder ==
  (last.mw = "rank" /\ last.res = "answered") =>
    LET list == last.value.list
        listed == {list[k].uid : k \in 1..Len(list)}
    IN /\ \A k \in 1..Len(list) : /\ list[k].uid \in Ranked
                                   /\ list[k].total = SumDurations(InWindow(list[k].uid))
       /\ \A j, k \in 1..Len(list) : j < k => RankedBefore(list[j].uid, list[k].uid)
       /\ \A u \in Ranked \ listed : \A k \in 1..Len(list) : RankedBefore(list[k].uid, u)
       /\ last.value.top >= 1 => Len(list) = Min(last.value.top, Cardinality(Ranked))

\* C13: whatever follows -top (nothing, a word, zero, a negative number, a
\* number above the maximum), the top of the leaderboard is in 1..50, a word
\* gives the configured default, and the leaderboard has min(top, number of
\* ranked users) entries.
C13_TopInRange ==
  (last.mw = "rank" /\ last.res = "answered") =>
    /\ last.value.top \in 1..MaxTop
    /\ last.session.content \in {MsgRank, MsgRankTopWord, MsgRankTopMissing}
         => last.value.top = config.defaultTop
    /\ Len(last.value.list) = Min(last.value.top, Cardinality(Ranked))

\* C14: the personal history reports a session as incomplete exactly when its
\* duration is null, averages the sessions whose duration is not null (those of
\* 0 minutes too), leaves the statistics line out exactly when there is none,
\* and answers with the empty-record tip exactly when the user has no session
\* in the last seven days.
C14_HistorySummary ==
  (last.mw = "history" /\ last.res # "noUid") =>
    LET u == last.session.uid
        today == FormatDate(last.at)
        mine == {i \in RowsOf(u) : records[i].date >= today - 7 /\ records[i].date <= today}
        closed == {i \in mine : records[i].duration # Null}
    IN /\ last.res = "empty" <=> mine = {}
       /\ last.res = "answered" =>
            LET lines == last.value.lines
            IN /\ {lines[k].id : k \in 1..Len(lines)} = mine
               /\ Len(lines) = Cardinality(mine)
               /\ \A k \in 1..Len(lines) :
                    ~lines[k].completed <=> records[lines[k].id].duration = Null
               /\ last.value.completedCount = Cardinality(closed)
               /\ last.value.avg = Null <=> closed = {}
               /\ closed # {} =>
                    last.value.avg = RoundDiv(SumDurations(closed), Cardinality(closed))

\* C15: a leaderboard query, a personal-history query and a help request leave
\* every row of sleep_record and every row of user as they are.
C15_QueriesReadOnly ==
  [][last'.mw \in {"rank", "history", "help"} => records' = records /\ users' = users]_vars

\* A leaderboard with -top and a history were answered over open and closed sessions.
C15_Witness ==
  /\ last.mw \in {"rank", "history"} /\ last.res = "answered"
  /\ last.session.content \in TopMessages \cup {MsgHowLong}
  /\ \E u \in Uids : users[u] # NoRow /\ users[u].lastSleepId # Null /\ ClosedOf(u) # {}

\* The invocation h is suspended, and it is a sleep-end between its check and
\* the end of its writes.
Busy(h) == inflight[h] # Idle
Closing(h) == Busy(h) /\ inflight[h].mw = "sleepEnd" /\ inflight[h].pc \in {"setRecord", "setUser"}

\* C16: a step of a sleep-start or sleep-end of user a, whatever is in flight
\* for other users, leaves the rows and the aggregate of every other user as
\* they are and creates rows of a only; what it reads (the user row, the count
\* of today's rows, the record to close) and what it answers is a's.
C16_PerUserIndependence ==
  [][\A h \in 1..MaxHandlers :
       inflight'[h] # inflight[h] =>
         LET a == IF Busy(h) THEN inflight[h].uid ELSE inflight'[h].uid
             mine == {i \in 1..Len(records) : records[i].uid = a}
         IN /\ \A b \in Uids \ {a} : users'[b] = users[b]
            /\ Len(records') >= Len(records)
            /\ \A i \in 1..Len(records) : records[i].uid # a => records'[i] = records[i]
            /\ \A i \in (Len(records) + 1)..Len(records') : records'[i].uid = a
            /\ (Busy(h) /\ inflight[h].pc = "getUser" /\ inflight'[h] # Idle) =>
                 inflight'[h].user \in {users[a], [sleepCount |-> 0]}
            /\ (Busy(h) /\ inflight[h].pc = "getToday" /\ inflight'[h] # Idle) =>
                 inflight'[h].count =
                   1 + Cardinality({i \in mine : records[i].date = FormatDate(inflight[h].t)})
            /\ (inflight'[h] # Idle /\ inflight'[h].pc \in {"setRecord", "setUser"}) =>
                 inflight'[h].rec.uid = a
            /\ (Busy(h) /\ inflight'[h] = Idle /\ last'.res = "repeat") =>
                 \E i \in mine : last'.time = FormatHHmm(records[i].sleepTime)]_vars

\* Sleep-ends of the two users are between their two writes at the same time.
C16_Witness ==
  \E h, g \in 1..MaxHandlers :
    /\ Closing(h) /\ Closing(g)
    /\ inflight[h].pc = "setUser" /\ inflight[g].pc = "setUser"
    /\ inflight[h].uid # inflight[g].uid

\* C17: in no state, the states between the writes of a sleep-end and after a
\* failed write included, is a session closed while its owner's lastSleepId
\* still names it or its duration is not in the owner's sleepTotal.
C17_AtomicClose ==
  \A i \in 1..Len(records) :
    records[i].wakeTime # EmptyStr =>
      LET u == records[i].uid
      IN /\ users[u] # NoRow
         /\ users[u].lastSleepId # records[i].id
         /\ users[u].sleepTotal = SumDurations(ClosedOf(u))

\* No two sleep-ends are past the open-session check for the same session, and
\* none is about to write a session that is closed already.
OneCloser ==
  /\ \A h, g \in 1..MaxHandlers :
       (h # g /\ Closing(h) /\ Closing(g)) => inflight[h].rec.id # inflight[g].rec.id
  /\ \A h \in 1..MaxHandlers :
       (Closing(h) /\ inflight[h].pc = "setRecord") =>
         records[inflight[h].rec.id].wakeTime = EmptyStr

\* C18: of two sleep-ends of one user that interleave while one session is
\* open, one closes it and the other finds no open session: the session is
\* written once, and the sleep-end that answers "closed" adds its duration to
\* the sleepTotal the user has then, so that no addition is lost or made twice.
C18_OneSleepEndCloses ==
  [][/\ OneCloser'
     /\ \A h \in 1..MaxHandlers :
          (Closing(h) /\ inflight'[h] = Idle /\ last'.res = "closed") =>
            users'[inflight[h].uid].sleepTotal =
              users[inflight[h].uid].sleepTotal + last'.value]_vars

\* lastSleepId of user u names a row that is missing, closed or another user's.
StalePointer(u) ==
  /\ users[u] # NoRow
  /\ users[u].lastSleepId # Null
  /\ ~\E i \in 1..Len(records) : /\ records[i].id = users[u].lastSleepId
                                  /\ records[i].uid = u
                                  /\ records[i].wakeTime = EmptyStr

\* C19: a sleep-end of a user whose lastSleepId is stale, with nothing else in
\* flight, finds no session to close: it answers "no open session", sets
\* lastSleepId to null and changes no session.
C19_StalePointerHealed ==
  [][\A h \in 1..MaxHandlers :
       (/\ Busy(h) /\ inflight[h].mw = "sleepEnd" /\ inflight[h].pc = "getRecord"
        /\ inflight'[h] # inflight[h]
        /\ \A g \in 1..MaxHandlers : g # h => ~Busy(g)
        /\ StalePointer(inflight[h].uid)
        /\ last'.res # "dbError") =>
         /\ inflight'[h] = Idle
         /\ last'.res = "noUnfinished"
         /\ users'[inflight[h].uid].lastSleepId = Null
         /\ records' = records]_vars

\* C20: for every session, duration is set exactly when wakeTime is set; a
\* step that creates a session leaves both unset and a step that sets one sets
\* the other.
C20_ClosedFields ==
  \A i \in 1..Len(records) : (records[i].duration # Null) <=> (records[i].wakeTime # EmptyStr)

\* An open session beside a closed one, while a sleep-end is between its writes.
C20_Witness ==
  /\ \E i \in 1..Len(records) : records[i].wakeTime = EmptyStr /\ records[i].duration = Null
  /\ \E i \in 1..Len(records) : records[i].wakeTime # EmptyStr /\ records[i].duration > 0
  /\ \E h \in 1..MaxHandlers : Closing(h) /\ inflight[h].pc = "setUser"

\* C21: a sleep-end of a user who has open sessions answers "closed" whatever
\* lastSleepId holds, closes one open session with the latest sleepTime and
\* leaves every other row as it is: the user has one open session fewer, so as
\* many sleep-ends in a row as there are open sessions close them all.
C21_OpenIsClosable ==
  [][Answers("sleepEnd") =>
       LET u == last'.session.uid
       IN OpenOf(u) # {} =>
            /\ last'.res = "closed"
            /\ Len(records') = Len(records)
            /\ \E i \in OpenOf(u) :
                 /\ \A j \in OpenOf(u) : records[j].sleepTime <= records[i].sleepTime
                 /\ records'[i].wakeTime = now
                 /\ \A j \in 1..Len(records) : j # i => records'[j] = records[j]]_vars

\* Two sessions that were open together are both closed, the second by the
\* latest sleep-end and after lastSleepId had been cleared by the first.
C21_Witness ==
  /\ last.mw = "sleepEnd" /\ last.res = "closed"
  /\ OpenOf(last.session.uid) = {}
  /\ \E i, j \in ClosedOf(last.session.uid) :
       /\ i # j
       /\ records[j].sleepTime < records[i].sleepTime
       /\ records[i].sleepTime < records[j].wakeTime
       /\ records[i].wakeTime <= records[j].wakeTime
       /\ records[j].wakeTime = last.at

\* The stored sleepCount of user u in the user table us, 0 while u has no row.
SleepCountOf(us, u) == IF us[u] = NoRow THEN 0 ELSE us[u].sleepCount
\* The number of rows of user u in the sleep_record table rs.
RowCount(rs, u) == Cardinality({i \in 1..Len(rs) : rs[i].uid = u})

\* C22: with every message processed to completion, no step removes a session
\* row or gives it to another user, a step adds to a user's sleepCount exactly
\* the number of rows it creates for that user (one, by a creating sleep-start;
\* none by a repeat, a sleep-end or a query), and so sleepCount is the number of
\* rows ever created for the user.
C22_CountIsRowsCreated ==
  [][\A u \in Uids :
       /\ Len(records') >= Len(records)
       /\ \A i \in 1..Len(records) : records'[i].uid = records[i].uid
       /\ SleepCountOf(users', u) - SleepCountOf(users, u) = RowCount(records', u) - RowCount(records, u)
       /\ RowCount(records', u) - RowCount(records, u) =
            (IF Answers("sleepStart") /\ last'.session.uid = u /\ last'.res \in {"created", "many"}
             THEN 1 ELSE 0)
       /\ SleepCountOf(users', u) = RowCount(records', u)]_vars

\* A user whose three sleep-starts each created a row, with a sleep-end in between.
C22_Witness ==
  \E u \in Uids : /\ users[u] # NoRow
                  /\ users[u].sleepCount = 3
                  /\ Cardinality(RowsOf(u)) = 3
                  /\ ClosedOf(u) # {}
                  /\ OpenOf(u) # {}

\* C23: a sleep-start that creates a session reports 1 + the number of the
\* user's rows dated today; a "repeat" leaves the rows dated today as they are;
\* the escalation is answered exactly when that number reaches the threshold.
\* With the default windows and threshold, the clock never running backwards
\* and every message processed to completion, the number is at most 2 and the
\* escalation is never answered.
C23_SameDayCounter ==
  [][Answers("sleepStart") =>
       LET u == last'.session.uid
           today == FormatDate(now)
           creating == last'.res \in {"created", "many"}
       IN /\ last'.res \in {"created", "many", "repeat"}
          /\ creating => last'.value = 1 + Cardinality(TodayRecords(records, u, today))
          /\ ~creating => TodayRecords(records', u, today) = TodayRecords(records, u, today)
          /\ last'.res = "many" => last'.value >= config.manyEveningThreshold
          /\ last'.res = "created" => last'.value < config.manyEveningThreshold
          /\ config = DefaultConfig =>
               /\ last'.res # "many"
               /\ creating => last'.value <= 2]_vars

\* With the defaults, a third goodnight of the day, after two that each created
\* a session, is answered "repeat".
C23_Witness ==
  /\ config = DefaultConfig
  /\ last.mw = "sleepStart" /\ last.res = "repeat"
  /\ Cardinality(TodayRecords(records, last.session.uid, FormatDate(last.at))) = 2
  /\ Len(records) < MaxRecords

====
